---- MODULE Spec2Model ----
(***************************************************************************)
(* Math-trade solvers of szadamek/math-trade: the greedy, cycle-ILP        *)
(* (max trades, max players), perfect-matching and genetic back-ends,      *)
(* each run on one instance (users + items) until its report is written.   *)
(***************************************************************************)
EXTENDS Integers, Sequences, FiniteSets, TLC

(***************************************************************************)
(* Bounds of the explored inputs.                                          *)
(***************************************************************************)
MaxWishLen == 2
MaxL == 3
NumGenerations == 2

NONE == "none"

(***************************************************************************)
(* Generic helpers.                                                        *)
(***************************************************************************)
Range(s) == {s[k] : k \in DOMAIN s}

\* F applied to a value that is computed once
LetIn(v, F(_)) == F(v)

RECURSIVE SumOver(_, _)
SumOver(S, f) ==
    IF S = {} THEN 0
    ELSE LET x == CHOOSE y \in S : TRUE IN f[x] + SumOver(S \ {x}, f)

RECURSIVE Flatten(_)
Flatten(ss) == IF ss = <<>> THEN <<>> ELSE Head(ss) \o Flatten(Tail(ss))

\* all orderings of a finite set as sequences without repetition
RECURSIVE Orderings(_)
Orderings(S) ==
    IF S = {} THEN {<<>>}
    ELSE UNION {{<<x>> \o s : s \in Orderings(S \ {x})} : x \in S}

\* sequences over S without repetition, of length at most n
DistinctSeqs(S, n) ==
    {s \in UNION {[1..k -> S] : k \in 0..n} :
        \A a, b \in DOMAIN s : a # b => s[a] # s[b]}

\* Python int(100 * a / b) of the percentage a / b * 100, 0 when b = 0
Percent(a, b) == IF b = 0 THEN 0 ELSE (a * 100) \div b

(***************************************************************************)
(* str.lower() on the identifiers of the explored instances.               *)
(***************************************************************************)
Lower(s) ==
    CASE s = "Alice" -> "alice"
      [] s = "Bob" -> "bob"
      [] s = "Charlie" -> "charlie"
      [] s = "Ghost" -> "ghost"
      [] s = "Ghost2" -> "ghost2"
      [] s = "Unknown" -> "unknown"
      [] OTHER -> s

(***************************************************************************)
(* The instances: item ids, display names, ownership layouts, wishlists.   *)
(***************************************************************************)
ItemIdx(i) ==
    CASE i = "item1" -> 1 [] i = "item2" -> 2 [] i = "item3" -> 3
      [] i = "item4" -> 4 [] OTHER -> 9

NameOf(i) ==
    CASE i = "item1" -> "Chess Set" [] i = "item2" -> "Monopoly Game"
      [] i = "item3" -> "Catan" [] i = "item4" -> "Carcassonne"
      [] OTHER -> i

\* item9 is wished for in the first layout but is not an item of any instance
I2 == {"item1", "item2"}
I3 == {"item1", "item2", "item3"}
I4 == {"item1", "item2", "item3", "item4"}

\* owner: recorded owner of each item; publisher: the user under whose
\* offers the item is listed; wishable: the ids its wishlist is drawn from
Layouts ==
    { [users |-> {"Alice", "Bob"},
       owner |-> [i \in I2 |-> IF i = "item1" THEN "Alice" ELSE "Bob"],
       publisher |-> [i \in I2 |-> IF i = "item1" THEN "Alice" ELSE "Bob"],
       wishable |-> [i \in I2 |-> I2 \cup {"item9"}]],
      [users |-> {"Alice", "Bob", "Charlie"},
       owner |-> [i \in I3 |-> CASE i = "item1" -> "Alice" [] i = "item2" -> "Bob"
                                 [] OTHER -> "Charlie"],
       publisher |-> [i \in I3 |-> CASE i = "item1" -> "Alice" [] i = "item2" -> "Bob"
                                     [] OTHER -> "Charlie"],
       wishable |-> [i \in I3 |-> I3 \ {i}]],
      [users |-> {"Alice", "Bob", "Charlie"},
       owner |-> [i \in I3 |-> IF i = "item3" THEN "Bob" ELSE "Alice"],
       publisher |-> [i \in I3 |-> IF i = "item3" THEN "Bob" ELSE "Charlie"],
       wishable |-> [i \in I3 |-> CASE i = "item1" -> I3
                                    [] i = "item2" -> {"item1", "item3"}
                                    [] OTHER -> {"item1", "item2"}]],
      [users |-> {"Alice", "Bob"},
       owner |-> [i \in I3 |-> CASE i = "item1" -> "Alice" [] i = "item2" -> "Ghost"
                                 [] OTHER -> "Ghost2"],
       publisher |-> [i \in I3 |-> IF i = "item1" THEN "Alice" ELSE "Bob"],
       wishable |-> [i \in I3 |-> CASE i = "item1" -> {"item2", "item3"}
                                    [] i = "item2" -> {"item1", "item3"}
                                    [] OTHER -> I3]],
      [users |-> {"Alice", "Bob"},
       owner |-> [i \in I4 |-> IF i \in {"item1", "item3"} THEN "Alice" ELSE "Bob"],
       publisher |-> [i \in I4 |-> IF i \in {"item1", "item3"} THEN "Alice" ELSE "Bob"],
       wishable |-> [i \in I4 |-> CASE i = "item1" -> {"item2", "item4"}
                                    [] i = "item2" -> {"item1", "item3"}
                                    [] i = "item3" -> {"item4", "item2"}
                                    [] OTHER -> {"item3"}]],
      [users |-> {"Alice", "Bob", "Charlie"},
       owner |-> [i \in I4 |-> IF i = "item3" THEN "Bob" ELSE "Alice"],
       publisher |-> [i \in I4 |-> "Charlie"],
       wishable |-> [i \in I4 |-> CASE i = "item1" -> {"item1", "item2"}
                                    [] i = "item2" -> {"item2", "item4"}
                                    [] i = "item3" -> {"item4"}
                                    [] OTHER -> {"item3", "item2"}]],
      \* two user names that differ only in letter case
      [users |-> {"Alice", "alice", "Bob"},
       owner |-> [i \in I3 |-> CASE i = "item1" -> "Alice" [] i = "item2" -> "alice"
                                 [] OTHER -> "Bob"],
       publisher |-> [i \in I3 |-> CASE i = "item1" -> "Alice" [] i = "item2" -> "alice"
                                     [] OTHER -> "Bob"],
       wishable |-> [i \in I3 |-> IF i = "item3" THEN {"item1", "item2"} ELSE {"item3"}]] }

WishAssignments(lay) ==
    {wl \in [DOMAIN lay.owner -> DistinctSeqs(UNION Range(lay.wishable), MaxWishLen)] :
        \A i \in DOMAIN wl : Range(wl[i]) \subseteq lay.wishable[i]}

MakeUsers(lay, wl) ==
    [u \in lay.users |->
        [offers |-> [i \in {j \in DOMAIN lay.owner : lay.publisher[j] = u} |-> wl[i]]]]

MakeItems(lay) ==
    [i \in DOMAIN lay.owner |-> [owner |-> lay.owner[i], name |-> NameOf(i)]]

(***************************************************************************)
(* Normaliser (identical in tradegenie.py, trade_maximizer_max_players.py, *)
(* trade_maximizer_working.py and genetic_algorithm_max_players.py, except *)
(* for the owner recorded for an item whose owner is not a user).          *)
(***************************************************************************)
UserIdx(u) ==
    CASE u = "Alice" -> 1 [] u = "Bob" -> 2 [] u = "Charlie" -> 3 [] u = "alice" -> 4
      [] OTHER -> 9

\* the key of a dict comprehension that is written last wins
LastUser(S) == CHOOSE u \in S : \A v \in S : UserIdx(v) <= UserIdx(u)

standardize_usernames(us) ==
    [ul \in {Lower(u) : u \in DOMAIN us} |->
        LastUser({u \in DOMAIN us : Lower(u) = ul})]

\* users_lower = {user.lower(): user_data for user, user_data in users.items()}
users_lower_of(us) ==
    [ul \in {Lower(u) : u \in DOMAIN us} |->
        us[LastUser({u \in DOMAIN us : Lower(u) = ul})]]

UnknownOwnerItems(its, ulo) ==
    {i \in DOMAIN its : Lower(its[i].owner) \notin DOMAIN ulo}

\* tradegenie.py / trade_maximizer_max_players.py: unknown owners become 'unknown'
TG_create_item_mappings(its, ulo) ==
    [item_owner |-> [i \in DOMAIN its |->
                        IF Lower(its[i].owner) \in DOMAIN ulo
                        THEN Lower(its[i].owner) ELSE "unknown"],
     item_name |-> [i \in DOMAIN its |-> its[i].name],
     warnings |-> Cardinality(UnknownOwnerItems(its, ulo))]

\* trade_maximizer_working.py / genetic_algorithm_max_players.py: the
\* lower-cased owner is kept although it is not a user
TM_create_item_mappings(its, ulo) ==
    [item_owner |-> [i \in DOMAIN its |-> Lower(its[i].owner)],
     item_name |-> [i \in DOMAIN its |-> its[i].name],
     warnings |-> Cardinality(UnknownOwnerItems(its, ulo))]

KeepKnown(wishlist, item_owner) ==
    SelectSeq(wishlist, LAMBDA w : w \in DOMAIN item_owner)

clean_wishlists(ul, item_owner) ==
    [users_lower |->
        [u \in DOMAIN ul |->
            [offers |-> [o \in DOMAIN ul[u].offers |->
                            KeepKnown(ul[u].offers[o], item_owner)]]],
     warnings |->
        Cardinality({p \in UNION {{<<u, o>> : o \in DOMAIN ul[u].offers} : u \in DOMAIN ul} :
            Range(ul[p[1]].offers[p[2]]) \ DOMAIN item_owner # {}})]

(***************************************************************************)
(* Graph builders.  A graph is [nodes, edges]; add_edge adds its endpoints.*)
(***************************************************************************)
WantEdges(ul, item_owner) ==
    UNION {UNION {{<<o, ul[u].offers[o][k]>> : k \in
                      {j \in DOMAIN ul[u].offers[o] :
                          /\ ul[u].offers[o][j] \in DOMAIN item_owner
                          /\ item_owner[ul[u].offers[o][j]] # u}} :
                  o \in DOMAIN ul[u].offers} :
           u \in DOMAIN ul}

UnavailableWishes(ul, item_owner) ==
    UNION {UNION {{<<u, o, k>> : k \in
                      {j \in DOMAIN ul[u].offers[o] :
                          ul[u].offers[o][j] \notin DOMAIN item_owner}} :
                  o \in DOMAIN ul[u].offers} :
           u \in DOMAIN ul}

\* directed want-graph of tradegenie.py, trade_maximizer_max_players.py and
\* genetic_algorithm_max_players.py
GraphOf(nodes, E, warnings) ==
    [nodes |-> nodes \cup {e[1] : e \in E} \cup {e[2] : e \in E},
     edges |-> E,
     warnings |-> warnings]

build_exchange_graph(ul, its, item_owner) ==
    GraphOf(DOMAIN its, WantEdges(ul, item_owner),
            Cardinality(UnavailableWishes(ul, item_owner)))

build_ownership_map(its) == [i \in DOMAIN its |-> Lower(its[i].owner)]

\* greedy_algorithm.py: users are not case-folded into a dict, only compared
GR_Edges(us, its, assigned_items) ==
    LET ownership == build_ownership_map(its) IN
    UNION {UNION {{<<o, us[u].offers[o][k]>> : k \in
                      {j \in DOMAIN us[u].offers[o] :
                          LET d == us[u].offers[o][j] IN
                          /\ o \notin assigned_items
                          /\ d \notin assigned_items
                          /\ d \in DOMAIN its
                          /\ ownership[d] # Lower(u)}} :
                  o \in DOMAIN us[u].offers} :
           u \in DOMAIN us}

GR_Refused(us, its, assigned_items) ==
    LET ownership == build_ownership_map(its) IN
    UNION {UNION {{<<u, o, k>> : k \in
                      {j \in DOMAIN us[u].offers[o] :
                          LET d == us[u].offers[o][j] IN
                          /\ o \notin assigned_items
                          /\ d \notin assigned_items
                          /\ ~(d \in DOMAIN its /\ ownership[d] # Lower(u))}} :
                  o \in DOMAIN us[u].offers} :
           u \in DOMAIN us}

build_graph(us, its, assigned_items) ==
    GraphOf({}, GR_Edges(us, its, assigned_items),
            Cardinality(GR_Refused(us, its, assigned_items)))

(***************************************************************************)
(* Cycle enumeration.  networkx.simple_cycles yields every simple cycle    *)
(* (self-loops included) once; a cycle is kept here in the rotation that   *)
(* starts at its smallest item.                                            *)
(***************************************************************************)
IsSimpleCycle(c, G) ==
    /\ Len(c) >= 1
    /\ \A a, b \in DOMAIN c : a # b => c[a] # c[b]
    /\ \A k \in DOMAIN c : <<c[k], c[(k % Len(c)) + 1]>> \in G.edges
    /\ \A k \in DOMAIN c : ItemIdx(c[1]) <= ItemIdx(c[k])

simple_cycles(G) ==
    {c \in UNION {[1..n -> G.nodes] : n \in 1..Cardinality(G.nodes)} :
        IsSimpleCycle(c, G)}

\* the cycles in one fixed enumeration order: by their items read as digits
RECURSIVE CycleKey(_)
CycleKey(c) == IF c = <<>> THEN 0 ELSE ItemIdx(Head(c)) + 10 * CycleKey(Tail(c))

RECURSIVE CanonicalOrder(_)
CanonicalOrder(S) ==
    IF S = {} THEN <<>>
    ELSE LetIn(CHOOSE c \in S : \A d \in S : CycleKey(c) <= CycleKey(d),
               LAMBDA m : <<m>> \o CanonicalOrder(S \ {m}))

\* greedy_algorithm.py and tradegenie.py
find_cycles(cycleSeq, max_cycle_length) ==
    SelectSeq(cycleSeq, LAMBDA c : 2 <= Len(c) /\ Len(c) <= max_cycle_length)

\* genetic_algorithm_max_players.py: no lower bound on the length
find_all_cycles(cycleSeq, max_cycle_length) ==
    SelectSeq(cycleSeq, LAMBDA c : Len(c) <= max_cycle_length)

CycleItems(c) == Range(c)

ItemsOf(sel) == UNION {CycleItems(sel[k]) : k \in DOMAIN sel}

(***************************************************************************)
(* Reports shared by the solvers.                                          *)
(***************************************************************************)
\* per-user lists appended hop by hop; a hop is [user, given, received]
TransactionsOf(hops) ==
    [u \in {hops[k].user : k \in DOMAIN hops} |->
        LetIn(SelectSeq(hops, LAMBDA h : h.user = u), LAMBDA mine :
            [items_given |-> [k \in DOMAIN mine |-> mine[k].given],
             items_received |-> [k \in DOMAIN mine |-> mine[k].received]])]

NumGiven(ut) == SumOver(DOMAIN ut, [u \in DOMAIN ut |-> Len(ut[u].items_given)])

Participating(summary) ==
    {n \in DOMAIN summary : summary[n].items_given # <<>> \/ summary[n].items_received # <<>>}

\* tradegenie.py, trade_maximizer_max_players.py, trade_maximizer_working.py,
\* genetic_algorithm_max_players.py (the last one does not warn)
summarize_exchanges(ul, ut, ulo) ==
    LetIn([n \in {ulo[u] : u \in DOMAIN ul} |->
              [items_offered |-> DOMAIN ul[CHOOSE u \in DOMAIN ul : ulo[u] = n].offers,
               items_given |-> IF n \in DOMAIN ut THEN ut[n].items_given ELSE <<>>,
               items_received |-> IF n \in DOMAIN ut THEN ut[n].items_received ELSE <<>>]],
          LAMBDA summary :
              [user_summary |-> summary,
               warnings |-> Cardinality(DOMAIN ut \ DOMAIN summary),
               participation_percent |->
                   Percent(Cardinality(Participating(summary)), Cardinality(DOMAIN summary))])

calculate_effectiveness(summary) ==
    Percent(SumOver(DOMAIN summary, [n \in DOMAIN summary |-> Len(summary[n].items_given)]),
            SumOver(DOMAIN summary,
                    [n \in DOMAIN summary |-> Cardinality(summary[n].items_offered)]))

(***************************************************************************)
(* Greedy solver (greedy_algorithm.py).                                    *)
(***************************************************************************)
RECURSIVE SortFromLen(_, _)
SortFromLen(cs, l) ==
    IF l = 0 THEN <<>>
    ELSE SelectSeq(cs, LAMBDA c : Len(c) = l) \o SortFromLen(cs, l - 1)

\* the walk over the cycles as they were enumerated, without the sort
SortByLenDesc_Unsorted(cs) == cs

\* cycles.sort(key=lambda x: -len(x)): stable, longest first
SortByLenDesc(cs) ==
    SortFromLen(cs, IF cs = <<>> THEN 0
                    ELSE CHOOSE l \in {Len(cs[k]) : k \in DOMAIN cs} :
                            \A k \in DOMAIN cs : Len(cs[k]) <= l)

GR_OwnerOf(ownership, i) == IF i \in DOMAIN ownership THEN ownership[i] ELSE "unknown"

GR_CycleExchanges(c, ownership) ==
    [k \in DOMAIN c |->
        [from_user |-> GR_OwnerOf(ownership, c[k]),
         to_user |-> GR_OwnerOf(ownership, c[(k % Len(c)) + 1]),
         item_given |-> c[k],
         item_received |-> c[(k % Len(c)) + 1]]]

GR_CycleValid(c, ownership) ==
    \A k \in DOMAIN c :
        GR_OwnerOf(ownership, c[k]) # GR_OwnerOf(ownership, c[(k % Len(c)) + 1])

\* the loop over the sorted cycles; accepted lists the cycles it extends
\* exchanges with
RECURSIVE GR_Walk(_, _, _)
GR_Walk(cs, ownership, acc) ==
    IF cs = <<>> THEN acc
    ELSE IF CycleItems(Head(cs)) \cap acc.assigned_items # {}
         THEN GR_Walk(Tail(cs), ownership, acc)
         ELSE IF ~GR_CycleValid(Head(cs), ownership)
         THEN GR_Walk(Tail(cs), ownership, [acc EXCEPT !.warnings = @ + 1])
         ELSE GR_Walk(Tail(cs), ownership,
                      [acc EXCEPT !.exchanges = @ \o GR_CycleExchanges(Head(cs), ownership),
                                  !.assigned_items = @ \cup CycleItems(Head(cs)),
                                  !.accepted = Append(@, Head(cs))])

\* cycles: find_cycles of build_graph's graph, in enumeration order;
\* graph_warnings: the warnings build_graph counted
find_possible_exchanges(its, cycles, graph_warnings) ==
    LetIn(GR_Walk(SortByLenDesc(cycles), build_ownership_map(its),
                  [exchanges |-> <<>>, assigned_items |-> {},
                   accepted |-> <<>>, warnings |-> graph_warnings]),
          LAMBDA walked :
              [cycles |-> cycles, exchanges |-> walked.exchanges,
               accepted |-> walked.accepted, warnings |-> walked.warnings])

GR_Participating(summary) ==
    {k \in DOMAIN summary : summary[k].items_given # {} \/ summary[k].items_received # {}}

GR_summarize_exchanges(us, exchanges) ==
    LetIn([k \in {Lower(u) : u \in DOMAIN us} |->
              [items_offered |->
                  {Lower(i) : i \in DOMAIN us[LastUser({u \in DOMAIN us : Lower(u) = k})].offers},
               items_given |->
                  {Lower(e.item_given) : e \in {x \in Range(exchanges) : Lower(x.from_user) = k}},
               items_received |->
                  {Lower(e.item_received) : e \in {x \in Range(exchanges) : Lower(x.from_user) = k}}
                  \cup {Lower(e.item_received) : e \in {x \in Range(exchanges) : Lower(x.to_user) = k}}]],
          LAMBDA summary :
              [user_summary |-> summary,
               warnings |->
                   Cardinality({j \in DOMAIN exchanges :
                                    Lower(exchanges[j].from_user) \notin DOMAIN summary})
                   + Cardinality({j \in DOMAIN exchanges :
                                    Lower(exchanges[j].to_user) \notin DOMAIN summary}),
               participation_percent |->
                   Percent(Cardinality(GR_Participating(summary)), Cardinality(DOMAIN summary))])

GR_calculate_effectiveness(summary) ==
    Percent(SumOver(DOMAIN summary, [n \in DOMAIN summary |-> Cardinality(summary[n].items_given)]),
            SumOver(DOMAIN summary,
                    [n \in DOMAIN summary |-> Cardinality(summary[n].items_offered)]))

(***************************************************************************)
(* Cycle-ILP solvers.  The binary program has one variable per cycle of    *)
(* the pool and one constraint per item (at most one chosen cycle holds    *)
(* it); it is always feasible, and the exact back-end returns one of its   *)
(* optimal solutions.                                                      *)
(***************************************************************************)
PickIdx(cs, S) == SelectSeq([k \in DOMAIN cs |-> k], LAMBDA k : k \in S)

\* [cycles[i] for i in cycle_vars if value(cycle_vars[i]) == 1]
PickCycles(cs, S) ==
    LetIn(PickIdx(cs, S), LAMBDA idx : [j \in DOMAIN idx |-> cs[idx[j]]])

\* the program without its per-item constraints
ItemDisjointAt_Unconstrained(cs, S) == TRUE

\* for item, cycle_indices in item_to_cycles.items(): sum of cycle_vars <= 1
ItemDisjointAt(cs, S) ==
    \A a, b \in S : a # b => CycleItems(cs[a]) \cap CycleItems(cs[b]) = {}

FeasibleSelections(cs) == {S \in SUBSET DOMAIN cs : ItemDisjointAt(cs, S)}

MaxOf(V) == CHOOSE v \in V : \A w \in V : w <= v

\* the feasible index sets on which the objective obj[S] is largest
ArgMax(obj) == LetIn(MaxOf(Range(obj)), LAMBDA best : {S \in DOMAIN obj : obj[S] = best})

\* objective of optimize_trades: sum of len(cycles[i]) * cycle_vars[i]
TradeObjective(cs, S) == SumOver(S, [k \in DOMAIN cs |-> Len(cs[k])])

\* the index sets optimize_trades may return as selected_cycles
optimize_trades(cs) ==
    ArgMax([S \in FeasibleSelections(cs) |-> TradeObjective(cs, S)])

OwnersIn(cs, S, item_owner) == {item_owner[i] : i \in UNION {CycleItems(cs[k]) : k \in S}}

\* objective of find_exchange_cycles_ilp: sum of user_vars, where user_vars[u]
\* is forced to 1 by a chosen cycle holding an item of u and to 0 without one
PlayerObjective(cs, S, item_owner) == Cardinality(OwnersIn(cs, S, item_owner))

\* the index sets find_exchange_cycles_ilp may return as selected cycles
find_exchange_cycles_ilp(cs, item_owner) ==
    IF cs = <<>> THEN {{}}
    ELSE ArgMax([S \in FeasibleSelections(cs) |-> PlayerObjective(cs, S, item_owner)])

\* tradegenie.py: in-degree-0 items leave the graph and both item maps
\* the weeding without the deletion of the map entries
weed_out_unwanted_items_KeepingMaps(G, item_owner, item_name) ==
    LetIn({n \in G.nodes : ~\E e \in G.edges : e[2] = n}, LAMBDA items_to_remove :
        [G |-> [nodes |-> G.nodes \ items_to_remove,
                edges |-> {e \in G.edges : e[1] \notin items_to_remove
                                           /\ e[2] \notin items_to_remove}],
         item_owner |-> item_owner,
         item_name |-> item_name,
         warnings |-> IF items_to_remove = {} THEN 0 ELSE 1])

weed_out_unwanted_items(G, item_owner, item_name) ==
    LetIn({n \in G.nodes : ~\E e \in G.edges : e[2] = n}, LAMBDA items_to_remove :
        [G |-> [nodes |-> G.nodes \ items_to_remove,
                edges |-> {e \in G.edges : e[1] \notin items_to_remove
                                           /\ e[2] \notin items_to_remove}],
         item_owner |-> [i \in DOMAIN item_owner \ items_to_remove |-> item_owner[i]],
         item_name |-> [i \in DOMAIN item_name \ items_to_remove |-> item_name[i]],
         warnings |-> IF items_to_remove = {} THEN 0 ELSE 1])

OriginalOf(ulo, owner_lower) == IF owner_lower \in DOMAIN ulo THEN ulo[owner_lower] ELSE "Unknown"

NameGet(item_name, i) == IF i \in DOMAIN item_name THEN item_name[i] ELSE "Unknown"

\* the hops of the selected cycles in the order the loops visit them
CycleHops(sel) ==
    Flatten([j \in DOMAIN sel |->
                [k \in DOMAIN sel[j] |->
                    [giver_item |-> sel[j][k],
                     receiver_item |-> sel[j][(k % Len(sel[j])) + 1],
                     previous_item |-> sel[j][IF k = 1 THEN Len(sel[j]) ELSE k - 1]]]])

SameUserHop(h, item_owner, ulo) ==
    OriginalOf(ulo, item_owner[h.giver_item]) = OriginalOf(ulo, item_owner[h.receiver_item])

ReconstructResult(ut, warnings) ==
    [user_transactions |-> ut, warnings |-> warnings, num_exchanges |-> NumGiven(ut)]

\* tradegenie.py (warns per skipped hop) and genetic_algorithm_max_players.py
TG_reconstruct_exchanges(sel, item_owner, item_name, ulo) ==
    LetIn(SelectSeq(CycleHops(sel), LAMBDA h : ~SameUserHop(h, item_owner, ulo)),
          LAMBDA kept :
              ReconstructResult(
                  TransactionsOf([k \in DOMAIN kept |->
                      [user |-> OriginalOf(ulo, item_owner[kept[k].giver_item]),
                       given |-> NameGet(item_name, kept[k].giver_item),
                       received |-> NameGet(item_name, kept[k].receiver_item)]]),
                  Len(CycleHops(sel)) - Len(kept)))

\* trade_maximizer_max_players.py: the item received is cycle[i - 1]
MP_reconstruct_exchanges(sel, item_owner, item_name, ulo) ==
    LetIn(CycleHops(sel), LAMBDA hops :
        ReconstructResult(
            TransactionsOf([k \in DOMAIN hops |->
                [user |-> OriginalOf(ulo, item_owner[hops[k].giver_item]),
                 given |-> NameGet(item_name, hops[k].giver_item),
                 received |-> NameGet(item_name, hops[k].previous_item)]]),
            0))

(***************************************************************************)
(* Matching solver (trade_maximizer_working.py).  Node f"{item}_R" is the  *)
(* pair <<item, "R">>; every edge joins an R node and an S node, so the    *)
(* graph is the weight of each joined pair <<x, y>> (x_R -- y_S).          *)
(***************************************************************************)
SelfEdgeWeight == 1000000000

TM_GraphOf(its, W, warnings) ==
    [left |-> {<<i, "R">> : i \in DOMAIN its},
     right |-> {<<i, "S">> : i \in DOMAIN its},
     \* add_edge on a pair already joined replaces its weight
     weight |-> [p \in {<<i, i>> : i \in DOMAIN its} \cup W |->
                    IF p \in W THEN 1 ELSE SelfEdgeWeight],
     warnings |-> warnings]

TM_build_exchange_graph(ul, its, item_owner) ==
    TM_GraphOf(its, WantEdges(ul, item_owner),
               Cardinality(UnavailableWishes(ul, item_owner)))

\* assignments of every x_R to a distinct y_S along an edge
FullMatchingsOver(G, its) ==
    {m \in [its -> its] :
        /\ \A x \in its : <<x, m[x]>> \in DOMAIN G.weight
        /\ \A x, y \in its : x # y => m[x] # m[y]}

FullMatchings(G) == FullMatchingsOver(G, {n[1] : n \in G.left})

\* total weight as [heavy: edges of weight 10^9, light: edges of weight 1];
\* fewer than 10^9 edges, so the order of the sums is the lexicographic one
MatchingWeight(G, m) ==
    [heavy |-> Cardinality({x \in DOMAIN m : G.weight[<<x, m[x]>>] = SelfEdgeWeight}),
     light |-> Cardinality({x \in DOMAIN m : G.weight[<<x, m[x]>>] = 1})]

WeightLess(a, b) == a.heavy < b.heavy \/ (a.heavy = b.heavy /\ a.light < b.light)

MinWeightAmong(G, M) ==
    {m \in M : \A o \in M : ~WeightLess(MatchingWeight(G, o), MatchingWeight(G, m))}

\* the matchings bipartite.minimum_weight_full_matching may return,
\* restricted to their x_R keys
find_minimum_cost_perfect_matching(G) == MinWeightAmong(G, FullMatchings(G))

RECURSIVE SortItems(_)
SortItems(S) ==
    IF S = {} THEN <<>>
    ELSE LetIn(CHOOSE x \in S : \A y \in S : ItemIdx(x) <= ItemIdx(y),
               LAMBDA m : <<m>> \o SortItems(S \ {m}))

\* pairs (x_R, y_S) with x # y in the order of the matching's keys
TM_Pairs(m) ==
    LetIn(SortItems({x \in DOMAIN m : m[x] # x}), LAMBDA ord :
        [k \in DOMAIN ord |-> [receiver_item_id |-> ord[k], sender_item_id |-> m[ord[k]]]])

TM_PairRecords(pr, item_owner, item_name, ulo) ==
    << [user |-> OriginalOf(ulo, item_owner[pr.receiver_item_id]),
        given |-> item_name[pr.receiver_item_id],
        received |-> item_name[pr.sender_item_id]],
       [user |-> OriginalOf(ulo, item_owner[pr.sender_item_id]),
        given |-> item_name[pr.sender_item_id],
        received |-> item_name[pr.receiver_item_id]] >>

reconstruct_exchanges_from_matching(m, item_owner, item_name, ulo) ==
    LetIn(TM_Pairs(m), LAMBDA pairs :
        [user_transactions |->
            TransactionsOf(Flatten([k \in DOMAIN pairs |->
                TM_PairRecords(pairs[k], item_owner, item_name, ulo)])),
         exchanges |-> [k \in DOMAIN pairs |->
            [from_user |-> OriginalOf(ulo, item_owner[pairs[k].receiver_item_id]),
             to_user |-> OriginalOf(ulo, item_owner[pairs[k].sender_item_id]),
             item |-> item_name[pairs[k].receiver_item_id]]],
         warnings |-> 0,
         num_exchanges |-> Len(pairs)])

(***************************************************************************)
(* Genetic solver (genetic_algorithm_max_players.py).  A chromosome is a   *)
(* list of cycles; every random draw is a choice among its outcomes.       *)
(***************************************************************************)
max_no_improvement == 10

\* rates in units of 1/100000
InitialMutationRate == 10000
MutationCeiling == 50000

RECURSIVE PackCycles(_, _)
PackCycles(cs, chromosome) ==
    IF cs = <<>> THEN chromosome
    ELSE PackCycles(Tail(cs),
                    IF ItemsOf(chromosome) \cap CycleItems(Head(cs)) = {}
                    THEN Append(chromosome, Head(cs)) ELSE chromosome)

\* the chromosomes one shuffle of the pool followed by the packing walk gives
FreshChromosomes(all_cycles) ==
    {PackCycles(o, <<>>) : o \in Orderings(Range(all_cycles))}

\* the populations initialize_population may return
initialize_population(all_cycles, population_size) ==
    [1..population_size -> FreshChromosomes(all_cycles)]

fitness_function(chromosome, owner) ==
    Cardinality({owner[i] : i \in ItemsOf(chromosome)})

RECURSIVE SortFromFitness(_, _, _)
SortFromFitness(pop, owner, f) ==
    IF f < 0 THEN <<>>
    ELSE SelectSeq(pop, LAMBDA c : fitness_function(c, owner) = f)
         \o SortFromFitness(pop, owner, f - 1)

\* sorted(zip(fitness_values, population), key=pair[0], reverse=True): stable
sorted_population_of(pop, owner) ==
    SortFromFitness(pop, owner,
        MaxOf({0} \cup {fitness_function(pop[k], owner) : k \in DOMAIN pop}))

\* fitness_values.sort(reverse=True)
sorted_fitness_of(pop, owner) ==
    LetIn(sorted_population_of(pop, owner), LAMBDA sp :
        [k \in DOMAIN sp |-> fitness_function(sp[k], owner)])

\* selection_probs as <<numerator, denominator>> pairs
selection_probs(fitness_values) ==
    [k \in DOMAIN fitness_values |->
        <<fitness_values[k], SumOver(DOMAIN fitness_values, fitness_values)>>]

\* the parent lists selection may return; fitness_values arrives sorted, so
\* weight k belongs to position k of the unsorted population
selection(pop, fitness_values, num_parents) ==
    IF SumOver(DOMAIN fitness_values, fitness_values) = 0
    THEN {[k \in 1..num_parents |-> pop[idx[k]]] :
            idx \in {f \in [1..num_parents -> DOMAIN pop] :
                        \A a, b \in 1..num_parents : a # b => f[a] # f[b]}}
    ELSE {[k \in 1..num_parents |-> pop[idx[k]]] :
            idx \in [1..num_parents ->
                        {i \in DOMAIN pop : selection_probs(fitness_values)[i][1] > 0}]}

crossover_Concatenating(parent1, parent2) == parent1 \o parent2

crossover(parent1, parent2) == PackCycles(parent2, PackCycles(parent1, <<>>))

RemoveAt(seq, k) == SubSeq(seq, 1, k - 1) \o SubSeq(seq, k + 1, Len(seq))

\* the chromosomes mutation may return
mutation(chromosome, all_cycles, mutation_rate) ==
    {chromosome}
    \cup (IF mutation_rate > 0
          THEN {Append(chromosome, all_cycles[k]) : k \in
                    {j \in DOMAIN all_cycles :
                        ItemsOf(chromosome) \cap CycleItems(all_cycles[j]) = {}}}
               \cup {RemoveAt(chromosome, k) : k \in DOMAIN chromosome}
          ELSE {})

\* the children one pass of the fill loop may append
ChildrenOf(parents, all_cycles, mutation_rate) ==
    UNION {mutation(crossover(parents[pr[1]], parents[pr[2]]), all_cycles, mutation_rate) :
              pr \in {q \in (DOMAIN parents) \X (DOMAIN parents) : q[1] # q[2]}}

calculate_diversity_low(pop) ==
    Cardinality({ {CycleItems(c[k]) : k \in DOMAIN c} : c \in Range(pop) }) * 10 < Len(pop)

NumParents(g) == (g.population_size * g.crossover_rate) \div 10

EliteOf_Worst(sp, elite_size) ==
    SubSeq(sp, Len(sp) + 1 - (IF elite_size < Len(sp) THEN elite_size ELSE Len(sp)), Len(sp))

EliteOf(sp, elite_size) == SubSeq(sp, 1, IF elite_size < Len(sp) THEN elite_size ELSE Len(sp))

(***************************************************************************)
(* State: the instance read by process_file, the solver that ran, and what *)
(* it produced.                                                            *)
(***************************************************************************)
VARIABLES
    users,              \* data['users']: user -> [offers: item -> wishlist]
    items,              \* data['items']: item -> [owner, name]
    max_cycle_length,   \* the max_cycle_length the cycles are enumerated with
    algo,               \* the solver module that processes the instance
    pc,                 \* "start", "ga_loop" (genetic only), "done", "error"
    item_owner,         \* item_owner as the reconstructor reads it
    cycles,             \* the enumerated cycle pool (cycles / all_cycles)
    selected,           \* selected_cycles / best_solution / accepted cycles
    matching,           \* the matching restricted to its x_R keys
    exchanges,          \* greedy and matching: the exchange records
    user_transactions,  \* user -> [items_given, items_received]
    user_summary,       \* user -> [items_offered, items_given, items_received]
    metrics,            \* the metrics dictionary
    ga,                 \* arguments and locals of genetic_algorithm
    backend,            \* how the ILP solver or the matcher of the run ended
    parser              \* globals of wants_processing.py while it reads its file

vars == <<users, items, max_cycle_length, algo, pc, item_owner, cycles, selected,
          matching, exchanges, user_transactions, user_summary, metrics, ga, backend,
          parser>>

solver_vars == <<users, items, max_cycle_length, algo, pc, item_owner, cycles, selected,
                 matching, exchanges, user_transactions, user_summary, metrics, ga,
                 backend>>

NoMetrics ==
    [num_users |-> 0, num_items |-> 0, num_cycles_found |-> 0,
     num_cycles_selected |-> 0, num_exchanges |-> 0, num_warnings |-> 0,
     overall_effectiveness_percent |-> 0, participation_percent |-> 0]

NoGA ==
    [population_size |-> 0, num_generations |-> 0, crossover_rate |-> 0,
     elite_size |-> 0, mutation_rate |-> 0, population |-> <<>>,
     best_solution |-> NONE, best_fitness |-> -1, no_improvement_counter |-> 0,
     generation |-> 0]

\* the arguments genetic_algorithm is run with (crossover_rate in tenths)
GA_Params ==
    {[population_size |-> 2, crossover_rate |-> 10, elite_size |-> 1],
     [population_size |-> 2, crossover_rate |-> 8, elite_size |-> 1]}

\* a population large enough for calculate_diversity to fall below 0.1
LargePopulation == [population_size |-> 11, crossover_rate |-> 2, elite_size |-> 10]

\* generations of the long run
StagnationRun == 12

\* the (arguments, num_generations) pairs genetic_algorithm is run with; the
\* long run of the large population is started on the single-cycle pools
GA_Runs(pool) ==
    {[par |-> par, num_generations |-> G] : par \in GA_Params, G \in {0, NumGenerations}}
    \cup (IF Len(pool) = 1
          THEN {[par |-> LargePopulation, num_generations |-> StagnationRun]}
          ELSE {})

\* wants_processing.py at import: nothing read yet
NoParser ==
    [line_number |-> 0, in_official_names |-> FALSE, current_user |-> NONE,
     item_id_to_name |-> <<>>, users |-> <<>>, raw_wants |-> <<>>,
     line |-> [kind |-> NONE, user |-> NONE, id |-> <<>>, name |-> <<>>, wants |-> <<>>],
     saved |-> FALSE]

Init ==
    /\ \E lay \in Layouts : \E wl \in WishAssignments(lay) :
          /\ users = MakeUsers(lay, wl)
          /\ items = MakeItems(lay)
    /\ max_cycle_length \in 2..MaxL
    /\ algo = NONE
    /\ pc = "start"
    /\ item_owner = <<>>
    /\ cycles = <<>>
    /\ selected = <<>>
    /\ matching = <<>>
    /\ exchanges = <<>>
    /\ user_transactions = <<>>
    /\ user_summary = <<>>
    /\ metrics = NoMetrics
    /\ ga = NoGA
    /\ backend = NONE
    /\ parser = NoParser

(***************************************************************************)
(* The normalisation every process_file but the greedy one starts with.    *)
(***************************************************************************)
Normalised(ulo, maps, cleaned) ==
    [ulo |-> ulo, item_owner |-> maps.item_owner, item_name |-> maps.item_name,
     users_lower |-> cleaned.users_lower, warnings |-> maps.warnings + cleaned.warnings]

TG_Normalise(us, its) ==
    LetIn(standardize_usernames(us), LAMBDA ulo :
    LetIn(TG_create_item_mappings(its, ulo), LAMBDA maps :
        Normalised(ulo, maps, clean_wishlists(users_lower_of(us), maps.item_owner))))

TM_Normalise(us, its) ==
    LetIn(standardize_usernames(us), LAMBDA ulo :
    LetIn(TM_create_item_mappings(its, ulo), LAMBDA maps :
        Normalised(ulo, maps, clean_wishlists(users_lower_of(us), maps.item_owner))))

\* metrics after summarize_exchanges and calculate_effectiveness
MetricsOf(us, its, found, chosen, rec, summary, warnings, effectiveness) ==
    [NoMetrics EXCEPT
        !.num_users = Cardinality(DOMAIN us),
        !.num_items = Cardinality(DOMAIN its),
        !.num_cycles_found = found,
        !.num_cycles_selected = chosen,
        !.num_exchanges = rec.num_exchanges,
        !.num_warnings = warnings + rec.warnings + summary.warnings,
        !.participation_percent = summary.participation_percent,
        !.overall_effectiveness_percent = effectiveness]

(***************************************************************************)
(* greedy_algorithm.process_file                                           *)
(***************************************************************************)
GR_Pool(G, L) ==
    [pool |-> find_cycles(CanonicalOrder(simple_cycles(G)), L), warnings |-> G.warnings]

GR_Report(found, summary) ==
    /\ cycles' = found.cycles
    /\ selected' = found.accepted
    /\ exchanges' = found.exchanges
    /\ user_summary' = summary.user_summary
    /\ metrics' = MetricsOf(users, items, Len(found.cycles), 0,
                            [num_exchanges |-> Len(found.exchanges), warnings |-> found.warnings],
                            summary, 0, GR_calculate_effectiveness(summary.user_summary))

Greedy ==
    /\ pc = "start"
    /\ LetIn(GR_Pool(build_graph(users, items, {}), max_cycle_length), LAMBDA prep :
          \* the order in which simple_cycles yields the cycles is not fixed
          \E enumerated \in Orderings(Range(prep.pool)) :
             LetIn(find_possible_exchanges(items, enumerated, prep.warnings), LAMBDA found :
                GR_Report(found, GR_summarize_exchanges(users, found.exchanges))))
    /\ algo' = "greedy"
    /\ pc' = "done"
    /\ item_owner' = build_ownership_map(items)
    /\ UNCHANGED <<backend, parser, users, items, max_cycle_length, matching, user_transactions, ga>>

(***************************************************************************)
(* tradegenie.process_file and trade_maximizer_max_players.process_file;   *)
(* both fix the max_cycle_length they enumerate with                       *)
(***************************************************************************)
TG_MaxCycleLength == 8
MP_MaxCycleLength == 10

Prepared(norm, owner, name, G, extra_warnings, L) ==
    [ulo |-> norm.ulo, users_lower |-> norm.users_lower,
     item_owner |-> owner, item_name |-> name,
     pool |-> find_cycles(CanonicalOrder(simple_cycles(G)), L),
     warnings |-> norm.warnings + extra_warnings]

TG_Prepare(us, its, L) ==
    LetIn(TG_Normalise(us, its), LAMBDA norm :
    LetIn(build_exchange_graph(norm.users_lower, its, norm.item_owner), LAMBDA G :
    LetIn(weed_out_unwanted_items(G, norm.item_owner, norm.item_name), LAMBDA weeded :
        Prepared(norm, weeded.item_owner, weeded.item_name, weeded.G,
                 G.warnings + weeded.warnings, L))))

MP_Prepare(us, its, L) ==
    LetIn(TG_Normalise(us, its), LAMBDA norm :
    LetIn(build_exchange_graph(norm.users_lower, its, norm.item_owner), LAMBDA G :
        Prepared(norm, norm.item_owner, norm.item_name, G, G.warnings, L)))

\* pulp's status after solve(), or whether the matcher raised
BackendOutcomes == {"optimal", "failed"}

\* the failure branch of a solver: warn(...) once and return the empty result
OnFailure_Silent(outcome, results, empty) ==
    IF outcome = "failed" THEN [results |-> {empty}, warnings |-> 0]
    ELSE [results |-> results, warnings |-> 0]

OnFailure(outcome, results, empty) ==
    IF outcome = "failed" THEN [results |-> {empty}, warnings |-> 1]
    ELSE [results |-> results, warnings |-> 0]

CycleReport(prep, sel, rec, summary) ==
    /\ item_owner' = prep.item_owner
    /\ cycles' = prep.pool
    /\ selected' = sel
    /\ user_transactions' = rec.user_transactions
    /\ user_summary' = summary.user_summary
    /\ metrics' = MetricsOf(users, items, Len(prep.pool), Len(sel), rec, summary,
                            prep.warnings, calculate_effectiveness(summary.user_summary))

TradeGenie ==
    /\ pc = "start"
    /\ LetIn(TG_Prepare(users, items, TG_MaxCycleLength), LAMBDA prep :
          \E outcome \in BackendOutcomes :
          LetIn(OnFailure(outcome, optimize_trades(prep.pool), {}), LAMBDA solved :
          \E S \in solved.results :
             LetIn(PickCycles(prep.pool, S), LAMBDA sel :
             LetIn(TG_reconstruct_exchanges(sel, prep.item_owner, prep.item_name, prep.ulo),
                   LAMBDA rec :
                /\ backend' = outcome
                /\ CycleReport([prep EXCEPT !.warnings = @ + solved.warnings], sel, rec,
                      summarize_exchanges(prep.users_lower, rec.user_transactions,
                                          prep.ulo))))))
    /\ algo' = "tradegenie"
    /\ pc' = "done"
    /\ max_cycle_length' = TG_MaxCycleLength
    /\ UNCHANGED <<parser, users, items, matching, exchanges, ga>>

MaxPlayers ==
    /\ pc = "start"
    /\ LetIn(MP_Prepare(users, items, MP_MaxCycleLength), LAMBDA prep :
          \* without cycles the function returns before it builds the program
          \E outcome \in (IF prep.pool = <<>> THEN {NONE} ELSE BackendOutcomes) :
          LetIn(OnFailure(outcome, find_exchange_cycles_ilp(prep.pool, prep.item_owner), {}),
                LAMBDA solved :
          \E S \in solved.results :
             LetIn(PickCycles(prep.pool, S), LAMBDA sel :
             LetIn(MP_reconstruct_exchanges(sel, prep.item_owner, prep.item_name, prep.ulo),
                   LAMBDA rec :
                /\ backend' = outcome
                /\ CycleReport([prep EXCEPT !.warnings = @ + solved.warnings], sel, rec,
                      summarize_exchanges(prep.users_lower, rec.user_transactions,
                                          prep.ulo))))))
    /\ algo' = "max_players"
    /\ pc' = "done"
    /\ max_cycle_length' = MP_MaxCycleLength
    /\ UNCHANGED <<parser, users, items, matching, exchanges, ga>>

(***************************************************************************)
(* trade_maximizer_working.process_file                                    *)
(***************************************************************************)
MatchingReport(norm, m, rec, summary, graph_warnings) ==
    /\ item_owner' = norm.item_owner
    /\ matching' = m
    /\ exchanges' = rec.exchanges
    /\ user_transactions' = rec.user_transactions
    /\ user_summary' = summary.user_summary
    /\ metrics' = MetricsOf(users, items, 0, 0, rec, summary,
                            norm.warnings + graph_warnings,
                            calculate_effectiveness(summary.user_summary))

Matching ==
    /\ pc = "start"
    /\ LetIn(TM_Normalise(users, items), LAMBDA norm :
       LetIn(TM_build_exchange_graph(norm.users_lower, items, norm.item_owner), LAMBDA G :
          \E outcome \in BackendOutcomes :
          LetIn(OnFailure(outcome, find_minimum_cost_perfect_matching(G), <<>>),
                LAMBDA solved :
          \E m \in solved.results :
             LetIn(reconstruct_exchanges_from_matching(m, norm.item_owner, norm.item_name,
                                                       norm.ulo), LAMBDA rec :
                /\ backend' = outcome
                /\ MatchingReport(norm, m, rec,
                      summarize_exchanges(norm.users_lower, rec.user_transactions, norm.ulo),
                      G.warnings + solved.warnings)))))
    /\ algo' = "matching"
    /\ pc' = "done"
    /\ UNCHANGED <<parser, users, items, max_cycle_length, cycles, selected, ga>>

(***************************************************************************)
(* genetic_algorithm_max_players.process_file                              *)
(***************************************************************************)
GA_Prepare(us, its, L) ==
    LetIn(TM_Normalise(us, its), LAMBDA norm :
    LetIn(build_exchange_graph(norm.users_lower, its, norm.item_owner), LAMBDA G :
        [ulo |-> norm.ulo, users_lower |-> norm.users_lower,
         item_owner |-> norm.item_owner, item_name |-> norm.item_name,
         pool |-> find_all_cycles(CanonicalOrder(simple_cycles(G)), L),
         warnings |-> norm.warnings + G.warnings]))

\* process_file up to the first generation; without a cycle it returns early
GA_Start ==
    /\ pc = "start"
    /\ algo' = "genetic"
    /\ LetIn(GA_Prepare(users, items, max_cycle_length), LAMBDA prep :
          /\ item_owner' = prep.item_owner
          /\ cycles' = prep.pool
          /\ metrics' = [NoMetrics EXCEPT
                !.num_users = Cardinality(DOMAIN users),
                !.num_items = Cardinality(DOMAIN items),
                !.num_cycles_found = Len(prep.pool),
                !.num_warnings = prep.warnings]
          /\ IF prep.pool = <<>>
             THEN pc' = "done" /\ ga' = ga
             ELSE /\ pc' = "ga_loop"
                  /\ \E run \in GA_Runs(prep.pool) :
                     \E pop \in initialize_population(prep.pool, run.par.population_size) :
                        ga' = [NoGA EXCEPT
                            !.population_size = run.par.population_size,
                            !.num_generations = run.num_generations,
                            !.crossover_rate = run.par.crossover_rate,
                            !.elite_size = run.par.elite_size,
                            !.mutation_rate = InitialMutationRate,
                            !.population = pop])
    /\ UNCHANGED <<backend, parser, users, items, max_cycle_length, selected, matching, exchanges,
                   user_transactions, user_summary>>

\* the end of one pass of the generation loop, from population = new_population
GA_EndOfGeneration(g, sp, new_population) ==
    LetIn(fitness_function(sp[1], item_owner) > g.best_fitness, LAMBDA improved :
    LetIn(IF improved THEN 0 ELSE g.no_improvement_counter + 1, LAMBDA counter :
        \E fresh \in (IF calculate_diversity_low(new_population)
                      THEN initialize_population(cycles, (g.population_size * 2) \div 10)
                      ELSE {<<>>}) :
            ga' = [g EXCEPT
                !.best_fitness = IF improved THEN fitness_function(sp[1], item_owner) ELSE @,
                !.best_solution = IF improved THEN sp[1] ELSE @,
                !.no_improvement_counter = IF counter > max_no_improvement THEN 0 ELSE counter,
                !.mutation_rate = IF counter > max_no_improvement
                                  THEN (IF (@ * 3) \div 2 < MutationCeiling
                                        THEN (@ * 3) \div 2 ELSE MutationCeiling)
                                  ELSE @,
                !.population = SubSeq(new_population \o fresh, 1, g.population_size),
                !.generation = @ + 1]))

\* one pass of the loop `for generation in range(num_generations)`
GA_Generation ==
    /\ pc = "ga_loop"
    /\ ga.generation < ga.num_generations
    /\ LetIn(sorted_population_of(ga.population, item_owner), LAMBDA sp :
       LetIn(EliteOf(sp, ga.elite_size), LAMBDA elite :
          \E parents \in selection(ga.population, sorted_fitness_of(ga.population, item_owner),
                                   NumParents(ga)) :
             IF Len(elite) < ga.population_size /\ Len(parents) < 2
             THEN \* random.sample(parents, 2) raises ValueError
                  pc' = "error" /\ ga' = ga
             ELSE /\ pc' = pc
                  /\ \E children \in [1..(ga.population_size - Len(elite)) ->
                                        ChildrenOf(parents, cycles, ga.mutation_rate)] :
                        GA_EndOfGeneration(ga, sp, elite \o children)))
    /\ UNCHANGED <<backend, parser, users, items, max_cycle_length, algo, item_owner, cycles, selected,
                   matching, exchanges, user_transactions, user_summary, metrics>>

GA_Report(sel, rec, summary) ==
    /\ selected' = sel
    /\ user_transactions' = rec.user_transactions
    /\ user_summary' = summary.user_summary
    /\ metrics' = MetricsOf(users, items, Len(cycles), Len(sel), [rec EXCEPT !.warnings = 0],
                            [summary EXCEPT !.warnings = 0], metrics.num_warnings,
                            calculate_effectiveness(summary.user_summary))

\* process_file after genetic_algorithm returned best_solution
GA_Finish ==
    /\ pc = "ga_loop"
    /\ ga.generation = ga.num_generations
    /\ IF ga.best_solution = NONE
       THEN \* len(best_solution) raises TypeError
            /\ pc' = "error"
            /\ UNCHANGED <<selected, user_transactions, user_summary, metrics>>
       ELSE /\ pc' = "done"
            /\ LetIn(GA_Prepare(users, items, max_cycle_length), LAMBDA prep :
               LetIn(TG_reconstruct_exchanges(ga.best_solution, prep.item_owner,
                                              prep.item_name, prep.ulo), LAMBDA rec :
                  GA_Report(ga.best_solution, rec,
                      summarize_exchanges(prep.users_lower, rec.user_transactions, prep.ulo))))
    /\ UNCHANGED <<backend, parser, users, items, max_cycle_length, algo, item_owner, cycles, matching,
                   exchanges, ga>>

Next ==
    \/ Greedy
    \/ TradeGenie
    \/ MaxPlayers
    \/ Matching
    \/ GA_Start
    \/ GA_Generation
    \/ GA_Finish

Spec == Init /\ [][Next]_vars

(***************************************************************************)
(* The wants-file parser: src/data_processing/wants_processing.py.         *)
(*                                                                         *)
(* An item id is a sequence: <<"0001-A">> is the id 0001-A and             *)
(* Append(id, k) is the id followed by -COPYk, so that the id written      *)
(* 0001-A-COPY1 in the file and the copy id the parser generates are the   *)
(* same value.  A wants string is a sequence of tokens, each an id or the  *)
(* comment sign; an item name is a sequence of characters.                 *)
(***************************************************************************)
MaxLines == 4           \* lines of the wants file
MaxWants == 2           \* tokens after the colon of an offer line

FileUsers == {"u1", "u2"}
BaseIds == {<<"0001-A">>, <<"0002-B">>}
PercentSign == <<"%">>
BadChar == "?"          \* U+FFFD, what errors='replace' leaves for a bad byte
FileNames == {<<"a">>, <<"a", BadChar>>}

\* f"{item_id}-COPY{copy_id}"
CopyOf(item_id, copy_id) == Append(item_id, copy_id)

RECURSIVE clean_wants(_)
clean_wants(wants_str) ==
    IF wants_str = <<>> \/ Head(wants_str) = PercentSign THEN <<>>
    ELSE <<Head(wants_str)>> \o clean_wants(Tail(wants_str))

RECURSIVE sanitize_name(_)
sanitize_name(name) ==
    IF name = <<>> THEN <<>>
    ELSE IF Head(name) = BadChar THEN sanitize_name(Tail(name))
    ELSE <<Head(name)>> \o sanitize_name(Tail(name))

RECURSIVE validate_wishlist(_, _)
validate_wishlist(wishlist, item_id_to_name) ==
    IF wishlist = <<>> THEN <<>>
    ELSE IF Head(wishlist) \in DOMAIN item_id_to_name
         THEN <<Head(wishlist)>> \o validate_wishlist(Tail(wishlist), item_id_to_name)
         ELSE validate_wishlist(Tail(wishlist), item_id_to_name)

\* a copy id loop that stops at its first candidate
NewItemId_First(item_id, item_id_to_name) == CopyOf(item_id, 1)

\* the while loop that looks for a free copy id
NewItemId(item_id, item_id_to_name) ==
    CopyOf(item_id,
           CHOOSE copy_id \in 1..(Cardinality(DOMAIN item_id_to_name) + 1) :
               /\ CopyOf(item_id, copy_id) \notin DOMAIN item_id_to_name
               /\ \A j \in 1..(copy_id - 1) : CopyOf(item_id, j) \in DOMAIN item_id_to_name)

\* d[key] = value on a dict
DictSet(d, key, value) == (key :> value) @@ d

FileLine(kind, user, id, name, wants) ==
    [kind |-> kind, user |-> user, id |-> id, name |-> name, wants |-> wants]

WantsStrings ==
    UNION {[1..n -> BaseIds \cup {PercentSign}] : n \in 0..MaxWants}

MarkerLines ==
    {FileLine(k, NONE, <<>>, <<>>, <<>>) : k \in {"begin", "end"}}

ItemLines ==
    {FileLine("item", u, id, n, <<>>) :
        u \in FileUsers, id \in BaseIds \cup {CopyOf(<<"0001-A">>, 1)}, n \in FileNames}

PragmaLines ==
    {FileLine("pragma", u, <<>>, <<>>, <<>>) : u \in FileUsers}

OfferLines ==
    {FileLine("offer", u, id, <<>>, w) : u \in FileUsers, id \in BaseIds, w \in WantsStrings}

\* blank lines, comments and lines no pattern matches
OtherLines == {FileLine("other", NONE, <<>>, <<>>, <<>>)}

Reading == pc = "parse" /\ ~parser.saved /\ parser.line_number < MaxLines

\* enumerate(file, 1): the next line is read
NextLine(p, line) == [p EXCEPT !.line_number = @ + 1, !.line = line]

OfficialNameEntry(p, line) ==
    LET item_id == IF line.id \in DOMAIN p.item_id_to_name
                   THEN NewItemId(line.id, p.item_id_to_name)
                   ELSE line.id
    IN  [p EXCEPT !.item_id_to_name =
            DictSet(@, item_id, [name |-> sanitize_name(line.name), owner |-> line.user])]

OfferEntry(p, line) ==
    LET wants_ids == validate_wishlist(clean_wants(line.wants), p.item_id_to_name)
        known     == line.id \in DOMAIN p.item_id_to_name
        copy      == known /\ p.item_id_to_name[line.id].owner # p.current_user
        item_id   == IF copy THEN NewItemId(line.id, p.item_id_to_name) ELSE line.id
        table     == IF known /\ ~copy THEN p.item_id_to_name
                     ELSE DictSet(p.item_id_to_name, item_id,
                                  [name |-> item_id, owner |-> p.current_user])
        offers    == IF p.current_user \in DOMAIN p.users
                     THEN p.users[p.current_user].offers ELSE <<>>
    IN  [p EXCEPT !.item_id_to_name = table,
                  !.users = DictSet(@, p.current_user,
                                    [offers |-> DictSet(offers, item_id, wants_ids)]),
                  !.raw_wants = DictSet(@, <<p.current_user, item_id>>, line.wants)]

BeginOfficialNames ==
    /\ Reading
    /\ \E line \in MarkerLines :
          /\ line.kind = "begin"
          /\ parser' = [NextLine(parser, line) EXCEPT !.in_official_names = TRUE]
    /\ UNCHANGED solver_vars

EndOfficialNames ==
    /\ Reading
    /\ \E line \in MarkerLines :
          /\ line.kind = "end"
          /\ parser' = [NextLine(parser, line) EXCEPT !.in_official_names = FALSE]
    /\ UNCHANGED solver_vars

OfficialName ==
    /\ Reading
    /\ parser.in_official_names
    /\ \E line \in ItemLines : parser' = OfficialNameEntry(NextLine(parser, line), line)
    /\ UNCHANGED solver_vars

UnknownOfficialName ==
    /\ Reading
    /\ parser.in_official_names
    /\ \E line \in PragmaLines \cup OfferLines \cup OtherLines :
          parser' = NextLine(parser, line)
    /\ UNCHANGED solver_vars

PragmaUser ==
    /\ Reading
    /\ ~parser.in_official_names
    /\ \E line \in PragmaLines :
          parser' = [NextLine(parser, line) EXCEPT !.current_user = line.user]
    /\ UNCHANGED solver_vars

Offer ==
    /\ Reading
    /\ ~parser.in_official_names
    /\ parser.current_user # NONE
    /\ \E line \in OfferLines :
          /\ line.user = parser.current_user
          /\ parser' = OfferEntry(NextLine(parser, line), line)
    /\ UNCHANGED solver_vars

\* an offer line of another user that switches the current user
SkippedOffer_Switching ==
    /\ Reading
    /\ ~parser.in_official_names
    /\ \E line \in OfferLines :
          /\ parser.current_user = NONE \/ line.user # parser.current_user
          /\ parser' = [NextLine(parser, line) EXCEPT !.current_user = line.user]
    /\ UNCHANGED solver_vars

SkippedOffer ==
    /\ Reading
    /\ ~parser.in_official_names
    /\ \E line \in OfferLines :
          /\ parser.current_user = NONE \/ line.user # parser.current_user
          /\ parser' = NextLine(parser, line)
    /\ UNCHANGED solver_vars

UnknownLine ==
    /\ Reading
    /\ ~parser.in_official_names
    /\ \E line \in ItemLines \cup OtherLines : parser' = NextLine(parser, line)
    /\ UNCHANGED solver_vars

\* end of file: data_to_save is written
Save ==
    /\ pc = "parse"
    /\ ~parser.saved
    /\ parser' = [parser EXCEPT !.saved = TRUE]
    /\ UNCHANGED solver_vars

ParserInit ==
    /\ parser = NoParser
    /\ pc = "parse"
    /\ users = <<>>
    /\ items = <<>>
    /\ max_cycle_length = 0
    /\ algo = NONE
    /\ item_owner = <<>>
    /\ cycles = <<>>
    /\ selected = <<>>
    /\ matching = <<>>
    /\ exchanges = <<>>
    /\ user_transactions = <<>>
    /\ user_summary = <<>>
    /\ metrics = NoMetrics
    /\ ga = NoGA
    /\ backend = NONE

ParserNext ==
    \/ BeginOfficialNames
    \/ EndOfficialNames
    \/ OfficialName
    \/ UnknownOfficialName
    \/ PragmaUser
    \/ Offer
    \/ SkippedOffer
    \/ UnknownLine
    \/ Save

ParserSpec == ParserInit /\ [][ParserNext]_vars

(***************************************************************************)
(* Properties of the reports.                                              *)
(***************************************************************************)
CycleSolvers == {"greedy", "tradegenie", "max_players", "genetic"}

\* the item a display name of the report stands for
IdOfName(n) == CHOOSE i \in DOMAIN items : items[i].name = n

\* item j is on the wishlist of an offer published for item i
Wished(i, j) ==
    \E u \in DOMAIN users :
        i \in DOMAIN users[u].offers /\ j \in Range(users[u].offers[i])

OwnerLower(i) == Lower(items[i].owner)

\* the participant a report names as the owner of item i: the user's own
\* spelling, "Unknown" for an owner who is not a user
OwnerName(i) == OriginalOf(standardize_usernames(users), OwnerLower(i))

PairwiseDisjoint(sel) ==
    \A a, b \in DOMAIN sel : a # b => CycleItems(sel[a]) \cap CycleItems(sel[b]) = {}

\* C1: in every solver that selects cycles (greedy, ILP-trades, ILP-players,
\* genetic) no item lies in two different selected cycles.
C1_Disjoint ==
    algo \in CycleSolvers =>
        /\ PairwiseDisjoint(selected)
        /\ ga.best_solution # NONE => PairwiseDisjoint(ga.best_solution)

\* a finished run that selected two cycles out of a pool in which some
\* cycles share an item
C1_Witness ==
    /\ pc = "done"
    /\ algo = "tradegenie"
    /\ Len(selected) >= 2
    /\ ~PairwiseDisjoint(cycles)

\* C2: every participant of a reported result gives exactly as many items
\* as it receives; the greedy summary holds for each participant exactly
\* the given and the received items of the exchange records it is from_user
\* of (two-cycle item1 <-> item2: alice gives {item1}, receives {item2}).
C2_Balanced ==
    pc = "done" =>
        \A u \in DOMAIN user_summary :
            IF algo = "greedy"
            THEN /\ Cardinality(user_summary[u].items_given)
                       = Cardinality(user_summary[u].items_received)
                 /\ user_summary[u].items_given
                       = {e.item_given : e \in {x \in Range(exchanges) : x.from_user = u}}
                 /\ user_summary[u].items_received
                       = {e.item_received : e \in {x \in Range(exchanges) : x.from_user = u}}
            ELSE Len(user_summary[u].items_given) = Len(user_summary[u].items_received)

\* C3: in every reported exchange the participant recorded as giving item i
\* is the owner of i, and the item recorded as received for i is on the
\* wishlist of the offer for i.
C3_Feasible ==
    pc = "done" =>
        IF algo = "greedy"
        THEN \A e \in Range(exchanges) :
                /\ e.from_user = OwnerLower(e.item_given)
                /\ Wished(e.item_given, e.item_received)
        ELSE \A u \in DOMAIN user_transactions :
                \A k \in DOMAIN user_transactions[u].items_given :
                   /\ u = OwnerName(IdOfName(user_transactions[u].items_given[k]))
                   /\ Wished(IdOfName(user_transactions[u].items_given[k]),
                             IdOfName(user_transactions[u].items_received[k]))

\* C4: no exchange record has the same participant as giver and receiver:
\* the owner of the item given is never the owner of the item received,
\* also when offers are published for items of somebody else.
C4_NoSelfTrade ==
    pc = "done" =>
        IF algo = "greedy"
        THEN \A e \in Range(exchanges) : e.from_user # e.to_user
        ELSE \A u \in DOMAIN user_transactions :
                \A k \in DOMAIN user_transactions[u].items_given :
                   OwnerName(IdOfName(user_transactions[u].items_given[k]))
                       # OwnerName(IdOfName(user_transactions[u].items_received[k]))

\* C5: for a selected cycle (c_1, ..., c_k), k >= 2, every cycle solver
\* records, for each position i, that the owner of c_i gives c_i and
\* receives c_(i+1 mod k).
C5_Reconstruction ==
    (pc = "done" /\ algo \in CycleSolvers) =>
        \A j \in DOMAIN selected : \A k \in DOMAIN selected[j] :
            Len(selected[j]) >= 2 =>
                LetIn(selected[j][k], LAMBDA g :
                LetIn(selected[j][(k % Len(selected[j])) + 1], LAMBDA r :
                    IF algo = "greedy"
                    THEN \E e \in Range(exchanges) :
                            /\ e.from_user = OwnerLower(g)
                            /\ e.item_given = g
                            /\ e.item_received = r
                    ELSE \E u \in DOMAIN user_transactions :
                            /\ u = OwnerName(g)
                            /\ \E n \in DOMAIN user_transactions[u].items_given :
                                  /\ user_transactions[u].items_given[n] = items[g].name
                                  /\ user_transactions[u].items_received[n] = items[r].name))

\* C6: every cycle of an enumerated pool has a length between 2 and
\* max_cycle_length.
C6_CycleLengths ==
    algo \in CycleSolvers =>
        \A k \in DOMAIN cycles :
            2 <= Len(cycles[k]) /\ Len(cycles[k]) <= max_cycle_length

\* the instance of the two-cycle scenario
TwoCycleInstance ==
    /\ users = ("Alice" :> [offers |-> ("item1" :> <<"item2">>)])
               @@ ("Bob" :> [offers |-> ("item2" :> <<"item1">>)])
    /\ items = ("item1" :> [owner |-> "Alice", name |-> "Chess Set"])
               @@ ("item2" :> [owner |-> "Bob", name |-> "Monopoly Game"])

\* C7: on the two-cycle scenario every solver reports exactly: Alice gives
\* item1 and receives item2 once, Bob gives item2 and receives item1 once,
\* num_exchanges = 2, effectiveness 100, participation 100.
C7_TwoCycleScenario ==
    (TwoCycleInstance /\ pc = "done" /\ backend # "failed") =>
        /\ metrics.num_exchanges = 2
        /\ metrics.overall_effectiveness_percent = 100
        /\ metrics.participation_percent = 100
        /\ IF algo = "greedy"
           THEN /\ DOMAIN user_summary = {"alice", "bob"}
                /\ user_summary["alice"].items_given = {"item1"}
                /\ user_summary["alice"].items_received = {"item2"}
                /\ user_summary["bob"].items_given = {"item2"}
                /\ user_summary["bob"].items_received = {"item1"}
           ELSE /\ DOMAIN user_summary = {"Alice", "Bob"}
                /\ user_summary["Alice"].items_given = <<"Chess Set">>
                /\ user_summary["Alice"].items_received = <<"Monopoly Game">>
                /\ user_summary["Bob"].items_given = <<"Monopoly Game">>
                /\ user_summary["Bob"].items_received = <<"Chess Set">>

\* C8: on the same pool of cycles the ILP-trades solver reports at least as
\* many exchanges as the greedy solver, whatever order the greedy solver
\* meets the cycles in.
C8_TradesAtLeastGreedy ==
    (algo = "tradegenie" /\ pc = "done" /\ backend # "failed") =>
        \A enumerated \in Orderings(Range(cycles)) :
            metrics.num_exchanges
                >= Len(find_possible_exchanges(items, enumerated, 0).exchanges)

\* C9: on the graph and the item-owner map of the genetic run, every
\* selection the ILP-players program may return involves at least as many
\* distinct participants as the fitness of the chromosome the genetic
\* solver returns.
C9_PlayersAtLeastGenetic ==
    (algo = "genetic" /\ pc = "done" /\ ga.best_solution # NONE) =>
        LetIn(find_cycles(cycles, max_cycle_length), LAMBDA pool :
            \A S \in find_exchange_cycles_ilp(pool, item_owner) :
                PlayerObjective(pool, S, item_owner)
                    >= fitness_function(ga.best_solution, item_owner))

SelfMatched(m) == {x \in DOMAIN m : m[x] = x}

\* the graph the matching of the current run was computed on
MatchedGraph ==
    TM_build_exchange_graph(TM_Normalise(users, items).users_lower, items, item_owner)

\* C10: the returned matching pairs every x_R with exactly one y_S and every
\* y_S with exactly one x_R, has minimum total weight among the perfect
\* matchings, and - each item having a self-edge of weight 10^9 - leaves
\* the fewest possible items matched to themselves.
C10_MatchingOptimal ==
    (algo = "matching" /\ pc = "done" /\ backend # "failed") =>
        LetIn(MatchedGraph, LAMBDA G :
            /\ DOMAIN matching = DOMAIN items
            /\ {matching[x] : x \in DOMAIN matching} = DOMAIN items
            /\ \A o \in FullMatchings(G) :
                  /\ ~WeightLess(MatchingWeight(G, o), MatchingWeight(G, matching))
                  /\ Cardinality(SelfMatched(matching)) <= Cardinality(SelfMatched(o)))

\* how often v occurs in the list seq
CountIn(seq, v) == Cardinality({k \in DOMAIN seq : seq[k] = v})

\* the items matched to a different item
NonSelfMatched(m) == DOMAIN m \ SelfMatched(m)

\* C11: the matching reconstructor yields exactly one exchange per matched
\* pair (x_R, y_S) with x # y and none for x = y: the owner of x has x once
\* in items_given and y once in items_received, each participant gives as
\* many items as it owns items matched to a different item, and
\* num_exchanges is the number of non-self pairs.
C11_OneRecordPerPair ==
    (algo = "matching" /\ pc = "done") =>
        /\ metrics.num_exchanges = Cardinality(NonSelfMatched(matching))
        /\ \A x \in NonSelfMatched(matching) :
              /\ OwnerName(x) \in DOMAIN user_transactions
              /\ CountIn(user_transactions[OwnerName(x)].items_given, items[x].name) = 1
              /\ CountIn(user_transactions[OwnerName(x)].items_received,
                         items[matching[x]].name) = 1
        /\ \A u \in DOMAIN user_transactions :
              Len(user_transactions[u].items_given)
                  = Cardinality({x \in NonSelfMatched(matching) : OwnerName(x) = u})

(***************************************************************************)
(* Properties of the parser output.                                        *)
(***************************************************************************)
\* the list seq restricted, in order, to the members of S
KeptIn(seq, S) == SelectSeq(seq, LAMBDA x : x \in S)

\* C12: in the saved output every accepted offer line's offer is stored
\* under its user with a wishlist equal to the wishlist of the line
\* restricted, in order, to the ids of the final item table, whether the
\* wished item was registered before or after the offer line.
C12_WishlistAgainstFinalTable ==
    (pc = "parse" /\ parser.saved) =>
        \A key \in DOMAIN parser.raw_wants :
            /\ key[1] \in DOMAIN parser.users
            /\ key[2] \in DOMAIN parser.users[key[1]].offers
            /\ parser.users[key[1]].offers[key[2]]
                   = KeptIn(clean_wants(parser.raw_wants[key]),
                            DOMAIN parser.item_id_to_name)

\* the step that reads a matched line of the official-names section
OfficialNameStep ==
    /\ pc = "parse"
    /\ parser.in_official_names
    /\ parser'.line_number = parser.line_number + 1
    /\ parser'.line.kind = "item"

\* the id under which the line just read was stored
StoredId == CHOOSE id \in DOMAIN parser'.item_id_to_name : id \notin DOMAIN parser.item_id_to_name

\* C13: every matched official-names line adds exactly one entry to the
\* item table and changes no entry that was there; a line whose id is new
\* is stored under that id, a line whose id is present is stored under
\* id-COPYk for the smallest k >= 1 such that id-COPYk was not present.
C13_OwnEntryPerLine ==
    [][OfficialNameStep =>
          LET old  == parser.item_id_to_name
              new  == parser'.item_id_to_name
              line == parser'.line
          IN  /\ Cardinality(DOMAIN new \ DOMAIN old) = 1
              /\ DOMAIN old \subseteq DOMAIN new
              /\ \A id \in DOMAIN old : new[id] = old[id]
              /\ new[StoredId].owner = line.user
              /\ line.id \notin DOMAIN old => StoredId = line.id
              /\ line.id \in DOMAIN old =>
                    \E k \in 1..(Cardinality(DOMAIN old) + 1) :
                        /\ StoredId = CopyOf(line.id, k)
                        /\ \A j \in 1..(k - 1) : CopyOf(line.id, j) \in DOMAIN old]_vars

\* an official-names line was stored as a second copy while the original
\* and the first copy keep their entries
C13_Witness ==
    /\ pc = "parse"
    /\ parser.in_official_names
    /\ parser.line.kind = "item"
    /\ parser.line.id \in BaseIds
    /\ {parser.line.id, CopyOf(parser.line.id, 1), CopyOf(parser.line.id, 2)}
           \subseteq DOMAIN parser.item_id_to_name
    /\ parser.item_id_to_name[CopyOf(parser.line.id, 2)].owner = parser.line.user

\* the step that reads an accepted offer line
OfferStep ==
    /\ pc = "parse"
    /\ ~parser.in_official_names
    /\ parser'.line_number = parser.line_number + 1
    /\ parser'.line.kind = "offer"
    /\ parser'.line.user = parser.current_user

\* C14: in the official-names section and in offer lines alike, inserting
\* an id whose recorded owner is the inserting owner leaves the set of ids
\* of the item table as it was, and inserting an id recorded for another
\* owner adds one -COPYk id.
C14_SameOwnerIdempotent ==
    [][(OfficialNameStep \/ OfferStep) =>
          LET old  == parser.item_id_to_name
              new  == parser'.item_id_to_name
              line == parser'.line
          IN  line.id \in DOMAIN old =>
                  IF old[line.id].owner = line.user
                  THEN DOMAIN new = DOMAIN old
                  ELSE \E k \in 1..(Cardinality(DOMAIN old) + 1) :
                          /\ CopyOf(line.id, k) \notin DOMAIN old
                          /\ DOMAIN new = DOMAIN old \cup {CopyOf(line.id, k)}]_vars

\* every item of the saved output is owned by a key of its users map
OwnersAreUsers ==
    \A id \in DOMAIN parser.item_id_to_name :
        parser.item_id_to_name[id].owner \in DOMAIN parser.users

\* every stored offer's item is in the item table, owned by the offer's user
OffersAreOwned ==
    \A u \in DOMAIN parser.users :
        \A id \in DOMAIN parser.users[u].offers :
            /\ id \in DOMAIN parser.item_id_to_name
            /\ parser.item_id_to_name[id].owner = u

\* C15: in the saved output every item's owner is a key of the users map,
\* and every offer's item is in the item table with the owner being the
\* user under which the offer is stored.
C15_OwnersAndOffers ==
    (pc = "parse" /\ parser.saved) => (OwnersAreUsers /\ OffersAreOwned)

(***************************************************************************)
(* Properties of the normaliser.                                           *)
(***************************************************************************)
\* the offers of the lower-cased users map, as pairs <<user, offered id>>
OffersOf(ul) == UNION {{<<u, o>> : o \in DOMAIN ul[u].offers} : u \in DOMAIN ul}

\* C16: after create_item_mappings and clean_wishlists every id left in a
\* wishlist is an id of the item table and is not owned by the user that
\* publishes the offer; each wishlist is the original one restricted, in
\* order, to the ids of the item table; and one warning is counted per
\* offer that lost an id.
C16_CleanWishlists ==
    (pc = "done" /\ algo = "genetic") =>
        LET ul      == users_lower_of(users)
            maps    == TM_create_item_mappings(items, standardize_usernames(users))
            cleaned == clean_wishlists(ul, maps.item_owner)
        IN  /\ \A p \in OffersOf(ul) :
                  LET before == ul[p[1]].offers[p[2]]
                      after  == cleaned.users_lower[p[1]].offers[p[2]]
                  IN  /\ Range(after) \subseteq DOMAIN items
                      /\ \A w \in Range(after) : maps.item_owner[w] # p[1]
                      /\ after = KeptIn(before, DOMAIN items)
            /\ cleaned.warnings =
                  Cardinality({p \in OffersOf(ul) :
                      Range(ul[p[1]].offers[p[2]]) \ DOMAIN items # {}})

\* the items whose recorded owner is not a user
Unowned == UnknownOwnerItems(items, standardize_usernames(users))

\* the lower-cased keys of the users map
KnownNames == {Lower(u) : u \in DOMAIN users}

\* C17: when some item's owner is not a user, the solver counts a warning
\* for each such item, no cycle of the pool or of the selection and no
\* matched pair contains such an item, and every participant named by an
\* exchange record is a user.
C17_UnknownOwnerDropped ==
    (pc = "done" /\ Unowned # {}) =>
        /\ metrics.num_warnings >= Cardinality(Unowned)
        /\ \A k \in DOMAIN cycles : Range(cycles[k]) \cap Unowned = {}
        /\ \A k \in DOMAIN selected : Range(selected[k]) \cap Unowned = {}
        /\ NonSelfMatched(matching) \cap Unowned = {}
        /\ \A e \in Range(exchanges) :
              Lower(e.from_user) \in KnownNames /\ Lower(e.to_user) \in KnownNames
        /\ \A u \in DOMAIN user_transactions : Lower(u) \in KnownNames

(***************************************************************************)
(* Properties of the genetic algorithm.                                    *)
(***************************************************************************)
\* the largest fitness in a population
BestOf(population) ==
    CHOOSE f \in {fitness_function(population[k], item_owner) : k \in DOMAIN population} :
        \A k \in DOMAIN population : fitness_function(population[k], item_owner) <= f

\* one pass of the generation loop was run
GenerationStep == pc = "ga_loop" /\ ga'.generation = ga.generation + 1

\* genetic_algorithm returned and process_file reported
FinishStep == algo = "genetic" /\ pc = "ga_loop" /\ pc' = "done"

\* C18: with at least one generation, the chromosome genetic_algorithm
\* returns is at least as fit as every chromosome of every population the
\* run held: the best fitness never decreases, after each generation it is
\* at least the best of the population that generation started from, the
\* best solution kept has that fitness, and the chromosome returned is
\* item-disjoint and at least as fit as every chromosome of the population
\* the last generation left.
C18_BestEverSeen ==
    [][/\ GenerationStep =>
             /\ ga'.best_fitness >= ga.best_fitness
             /\ ga'.best_fitness >= BestOf(ga.population)
             /\ fitness_function(ga'.best_solution, item_owner) = ga'.best_fitness
             /\ ga.best_solution # NONE /\ ga'.best_fitness = ga.best_fitness
                    => ga'.best_solution = ga.best_solution
       /\ FinishStep =>
             /\ selected' = ga.best_solution
             /\ PairwiseDisjoint(selected')
             /\ fitness_function(selected', item_owner) >= BestOf(ga.population)]_vars

(***************************************************************************)
(* Properties of the failure branches.                                     *)
(***************************************************************************)
\* the warnings the run counts before it calls its back-end
WarningsBefore ==
    CASE algo = "tradegenie" -> TG_Prepare(users, items, TG_MaxCycleLength).warnings
      [] algo = "max_players" -> MP_Prepare(users, items, MP_MaxCycleLength).warnings
      [] OTHER -> TM_Normalise(users, items).warnings + MatchedGraph.warnings

\* C19: when the ILP status is not optimal, or the matcher fails, the
\* solver returns the empty selection (the empty matching), counts exactly
\* one warning for the failure, and the run completes with a report of
\* zero exchanges.
C19_BackendFailure ==
    backend = "failed" =>
        /\ pc = "done"
        /\ selected = <<>>
        /\ matching = <<>>
        /\ metrics.num_warnings = WarningsBefore + 1
        /\ metrics.num_exchanges = 0
        /\ metrics.num_cycles_selected = 0
        /\ exchanges = <<>>
        /\ \A u \in DOMAIN user_transactions : user_transactions[u].items_given = <<>>
        /\ \A u \in DOMAIN user_summary : user_summary[u].items_given = <<>>

\* a back-end failed on an instance that has a cycle of two items to trade
C19_Witness ==
    /\ backend = "failed"
    /\ pc = "done"
    /\ algo \in {"tradegenie", "max_players", "matching"}
    /\ \E x, y \in DOMAIN items : x # y /\ Wished(x, y) /\ Wished(y, x)
    /\ algo # "matching" => cycles # <<>>

(***************************************************************************)
(* Properties of the greedy solver.                                        *)
(***************************************************************************)
\* cycle a of the pool is considered before cycle b: it is longer, or as
\* long and enumerated earlier
Before(a, b) ==
    \/ Len(cycles[a]) > Len(cycles[b])
    \/ Len(cycles[a]) = Len(cycles[b]) /\ a < b

\* no item of the cycle is followed by an item of the same owner
NoSameOwnerHop(c) ==
    \A k \in DOMAIN c : OwnerLower(c[k]) # OwnerLower(c[(k % Len(c)) + 1])

\* the positions in the pool of the cycles that were accepted
AcceptedIdx == {k \in DOMAIN cycles : \E j \in DOMAIN selected : selected[j] = cycles[k]}

\* the exchange records of one cycle
RecordsOf(c) ==
    {[from_user |-> OwnerLower(c[k]), to_user |-> OwnerLower(c[(k % Len(c)) + 1]),
      item_given |-> c[k], item_received |-> c[(k % Len(c)) + 1]] : k \in DOMAIN c}

\* C20: the greedy solver considers the cycles longest first, cycles of one
\* length in enumeration order; it accepts a cycle exactly when none of its
\* items is in a cycle accepted before it and no item is followed by an
\* item of the same owner; the exchange records are all the records of the
\* accepted cycles and no others.
C20_GreedyOrder ==
    (algo = "greedy" /\ pc = "done") =>
        /\ Range(selected) \subseteq Range(cycles)
        /\ \A k \in DOMAIN cycles :
              k \in AcceptedIdx <=>
                  /\ NoSameOwnerHop(cycles[k])
                  /\ \A j \in AcceptedIdx :
                        Before(j, k) => CycleItems(cycles[j]) \cap CycleItems(cycles[k]) = {}
        /\ \A a, b \in DOMAIN selected :
              a < b => \E j, k \in DOMAIN cycles :
                          cycles[j] = selected[a] /\ cycles[k] = selected[b] /\ Before(j, k)
        /\ Range(exchanges) = UNION {RecordsOf(selected[j]) : j \in DOMAIN selected}
        /\ Len(exchanges) = SumOver(DOMAIN selected, [j \in DOMAIN selected |-> Len(selected[j])])

\* the greedy solver met a shorter cycle before a longer one that shares an
\* item with it, accepted the longer one and rejected the shorter one
C20_Witness ==
    /\ algo = "greedy"
    /\ pc = "done"
    /\ \E j, k \in DOMAIN cycles :
          /\ j < k
          /\ Len(cycles[j]) < Len(cycles[k])
          /\ CycleItems(cycles[j]) \cap CycleItems(cycles[k]) # {}
          /\ NoSameOwnerHop(cycles[j])
          /\ k \in AcceptedIdx
          /\ j \notin AcceptedIdx
    /\ Len(exchanges) >= 3

(***************************************************************************)
(* Properties of skipped offer lines.                                      *)
(***************************************************************************)
\* the step that reads an offer line of another user than the current one,
\* or an offer line before any pragma user line
SkippedOfferStep ==
    /\ pc = "parse"
    /\ ~parser.in_official_names
    /\ parser'.line_number = parser.line_number + 1
    /\ parser'.line.kind = "offer"
    /\ parser.current_user = NONE \/ parser'.line.user # parser.current_user

\* what the parser keeps between lines, besides the line counter
Kept(p) == <<p.item_id_to_name, p.users, p.current_user, p.in_official_names>>

\* an accepted line that may follow: the skipped offer made by the current
\* user, with a one-id wishlist
FollowingLines ==
    {FileLine("offer", u, parser'.line.id, <<>>, <<parser'.line.id>>) :
        u \in FileUsers \cap {parser.current_user}}

\* C27: an offer line outside the official-names section whose owner is
\* not the current pragma user, or that comes before any pragma user line,
\* leaves the item table, the users map and the current user unchanged,
\* and every line that may follow is handled as it would be without it.
C27_SkippedOfferFrame ==
    [][SkippedOfferStep =>
          /\ Kept(parser') = Kept(parser)
          /\ \A line \in FollowingLines :
                /\ Kept(OfferEntry(NextLine(parser', line), line))
                       = Kept(OfferEntry(NextLine(parser, line), line))
                /\ OfferEntry(NextLine(parser', line), line).raw_wants
                       = OfferEntry(NextLine(parser, line), line).raw_wants]_vars

\* an offer line of u2 was read and skipped while u1 is the current user
\* and has an offer stored
C27_Witness ==
    /\ pc = "parse"
    /\ ~parser.in_official_names
    /\ parser.line.kind = "offer"
    /\ parser.current_user # NONE
    /\ parser.line.user # parser.current_user
    /\ parser.current_user \in DOMAIN parser.users
    /\ parser.line.id \notin DOMAIN parser.users[parser.current_user].offers

(***************************************************************************)
(* Properties of the want-graph.                                           *)
(***************************************************************************)
\* the graph the solver of the current run built from users and items
BuiltGraph ==
    CASE algo = "greedy" -> build_graph(users, items, {})
      [] algo = "genetic" ->
            LetIn(TM_Normalise(users, items), LAMBDA norm :
                build_exchange_graph(norm.users_lower, items, norm.item_owner))
      [] OTHER ->
            LetIn(TG_Normalise(users, items), LAMBDA norm :
                build_exchange_graph(norm.users_lower, items, norm.item_owner))

\* the edges the want-graph is specified to have
WantedEdges ==
    {e \in (DOMAIN items) \X (DOMAIN items) :
        Wished(e[1], e[2]) /\ OwnerLower(e[1]) # OwnerLower(e[2])}

\* C25: the want-graph a cycle solver builds has the ids of the item table
\* as its vertices and the edge a -> b exactly when an offer of a lists the
\* known item b and the owners of a and b differ; it has no self-loop and
\* no edge between two items of one owner.
C25_WantGraph ==
    (pc = "done" /\ algo \in CycleSolvers) =>
        LetIn(BuiltGraph, LAMBDA G :
            /\ G.nodes = DOMAIN items
            /\ G.edges = WantedEdges
            /\ \A e \in G.edges : e[1] # e[2] /\ OwnerLower(e[1]) # OwnerLower(e[2]))

(***************************************************************************)
(* Properties of the weeding of tradegenie.py.                             *)
(***************************************************************************)
\* the vertices of G no edge leads to
Unwanted(G) == {n \in G.nodes : \A e \in G.edges : e[2] # n}

\* C26: weed_out_unwanted_items removes exactly the vertices of in-degree
\* 0, with their edges and their item_owner and item_name entries: the
\* simple cycles of the graph are the same before and after, no removed
\* item is left in item_owner or item_name, and every item still in the
\* graph keeps its owner and its name.
C26_Weeding ==
    (pc = "done" /\ algo = "tradegenie") =>
        LetIn(TG_Normalise(users, items), LAMBDA norm :
        LetIn(build_exchange_graph(norm.users_lower, items, norm.item_owner), LAMBDA G :
        LetIn(weed_out_unwanted_items(G, norm.item_owner, norm.item_name), LAMBDA weeded :
            /\ weeded.G.nodes = G.nodes \ Unwanted(G)
            /\ weeded.G.edges = {e \in G.edges : e[1] \notin Unwanted(G)}
            /\ simple_cycles(weeded.G) = simple_cycles(G)
            /\ DOMAIN weeded.item_owner = DOMAIN norm.item_owner \ Unwanted(G)
            /\ DOMAIN weeded.item_name = DOMAIN norm.item_name \ Unwanted(G)
            /\ \A i \in weeded.G.nodes :
                  /\ weeded.item_owner[i] = norm.item_owner[i]
                  /\ weeded.item_name[i] = norm.item_name[i]
            /\ item_owner = weeded.item_owner)))

\* a tradegenie run weeded an unwanted item out of a graph that has a cycle
C26_Witness ==
    /\ pc = "done"
    /\ algo = "tradegenie"
    /\ cycles # <<>>
    /\ DOMAIN item_owner # DOMAIN items
    /\ \E i \in DOMAIN items \ DOMAIN item_owner : \E j \in DOMAIN items : Wished(i, j)

(***************************************************************************)
(* Conservation of items in the reports.                                   *)
(***************************************************************************)
\* how often the report lists the item named n as given / as received
TimesGiven(n) ==
    IF algo = "greedy"
    THEN Cardinality({u \in DOMAIN user_summary : n \in user_summary[u].items_given})
    ELSE SumOver(DOMAIN user_transactions,
                 [u \in DOMAIN user_transactions |->
                     CountIn(user_transactions[u].items_given, n)])

TimesReceived(n) ==
    IF algo = "greedy"
    THEN Cardinality({u \in DOMAIN user_summary : n \in user_summary[u].items_received})
    ELSE SumOver(DOMAIN user_transactions,
                 [u \in DOMAIN user_transactions |->
                     CountIn(user_transactions[u].items_received, n)])

\* the names the report of the run uses for the items
ReportNames == IF algo = "greedy" THEN DOMAIN items ELSE {items[i].name : i \in DOMAIN items}

\* the participants the report lists the item named n as given by
GiversOf(n) ==
    IF algo = "greedy"
    THEN {u \in DOMAIN user_summary : n \in user_summary[u].items_given}
    ELSE {u \in DOMAIN user_transactions : CountIn(user_transactions[u].items_given, n) > 0}

\* the owner of the item named n, as the report of the run spells it
ReportOwner(n) == IF algo = "greedy" THEN OwnerLower(n) ELSE OwnerName(IdOfName(n))

\* C28: in the report of every solver an item is received exactly when it
\* is given, it is given by its owner only, and no item is given or
\* received more than once.
C28_Conservation ==
    (pc = "done" /\ backend # "failed") =>
        \A n \in ReportNames :
            /\ TimesGiven(n) <= 1
            /\ TimesReceived(n) <= 1
            /\ TimesGiven(n) = TimesReceived(n)
            /\ GiversOf(n) \subseteq {ReportOwner(n)}

(***************************************************************************)
(* Properties of the case-folding of user names.                           *)
(***************************************************************************)
\* the solvers that case-fold the users map
FoldingSolvers == {"tradegenie", "max_players", "matching", "genetic"}

\* C30: case-folding loses no participant: every input user is a key of
\* users_lower with all of its offers and their wishlists, the summary has
\* num_users entries, and every wish of every user for a known item of
\* another owner is an edge of the graph.
C30_CaseFolding ==
    (pc = "done" /\ algo \in FoldingSolvers /\ backend # "failed") =>
        LetIn(users_lower_of(users), LAMBDA ul :
            /\ \A u \in DOMAIN users :
                  /\ Lower(u) \in DOMAIN ul
                  /\ \A o \in DOMAIN users[u].offers :
                        /\ o \in DOMAIN ul[Lower(u)].offers
                        /\ ul[Lower(u)].offers[o] = users[u].offers[o]
            /\ metrics.num_users = Cardinality(DOMAIN users)
            /\ ~(algo = "genetic" /\ cycles = <<>>) =>
                  Cardinality(DOMAIN user_summary) = metrics.num_users
            /\ algo # "matching" =>
                  \A u \in DOMAIN users : \A o \in DOMAIN users[u].offers :
                     \A w \in Range(users[u].offers[o]) :
                        (w \in DOMAIN items /\ OwnerLower(w) # Lower(u))
                            => <<o, w>> \in BuiltGraph.edges)

(***************************************************************************)
(* C24: for every pool and every population_size >= 1, 0 <= elite_size <=  *)
(* population_size, 0 < crossover_rate <= 1 and num_generations >= 0,      *)
(* genetic_algorithm ends without an error after exactly num_generations   *)
(* passes: the fill loop can always draw its two parents, every pass       *)
(* leaves population_size chromosomes, and a chromosome (not None) is      *)
(* returned.                                                               *)
(***************************************************************************)
GA_Admissible(g) ==
    /\ g.population_size >= 1
    /\ g.elite_size >= 0 /\ g.elite_size <= g.population_size
    /\ g.crossover_rate > 0 /\ g.crossover_rate <= 10
    /\ g.num_generations >= 0

GA_Returned == pc = "ga_loop" /\ ga.generation = ga.num_generations

C24_Terminates ==
    (algo = "genetic" /\ ga # NoGA /\ GA_Admissible(ga)) =>
        /\ pc # "error"
        /\ ga.generation <= ga.num_generations
        /\ Len(ga.population) = ga.population_size
        /\ GA_Returned => ga.best_solution # NONE

(***************************************************************************)
(* C22: throughout a genetic_algorithm run (after initialize_population,   *)
(* after every crossover, every add- or remove-mutation and every          *)
(* injection) each chromosome of the population holds only cycles of the   *)
(* enumerated pool and its cycles are pairwise item-disjoint; and          *)
(* crossover(A, B) holds every cycle of A, followed by exactly the cycles  *)
(* of B that share no item with a cycle already in the child.              *)
(***************************************************************************)
FromPool(chromosome) == Range(chromosome) \subseteq Range(cycles)

Conflicting(A, B) ==
    \E a \in DOMAIN A, b \in DOMAIN B : CycleItems(A[a]) \cap CycleItems(B[b]) # {}

C22_Chromosomes ==
    (algo = "genetic" /\ ga # NoGA) =>
        /\ \A k \in DOMAIN ga.population :
              FromPool(ga.population[k]) /\ PairwiseDisjoint(ga.population[k])
        /\ \A A, B \in Range(ga.population) :
              LetIn(crossover(A, B), LAMBDA child :
                 /\ FromPool(child) /\ PairwiseDisjoint(child)
                 /\ child = A \o SelectSeq(B, LAMBDA c :
                                \A a \in DOMAIN A : CycleItems(A[a]) \cap CycleItems(c) = {})
                 /\ \A m \in mutation(child, cycles, ga.mutation_rate) :
                       FromPool(m) /\ PairwiseDisjoint(m))

\* after a generation the population holds a chromosome of two cycles and a
\* different one sharing an item with it, so their crossover drops a cycle
C22_Witness ==
    /\ algo = "genetic" /\ pc = "ga_loop" /\ ga.generation >= 1
    /\ \E A, B \in Range(ga.population) :
          /\ Len(A) >= 2 /\ Conflicting(A, B) /\ A # B
          /\ crossover(B, A) # B \o A

(***************************************************************************)
(* C21: in each generation with positive total fitness, selection draws    *)
(* floor(population_size * crossover_rate) parents with replacement, and   *)
(* the probability of drawing a chromosome is its own fitness divided by   *)
(* the total fitness of the population; with total fitness 0 every         *)
(* chromosome can be drawn alike.                                          *)
(***************************************************************************)
\* the fitness_values list genetic_algorithm hands to selection
PassedFitness == sorted_fitness_of(ga.population, item_owner)

TotalFitness ==
    SumOver(DOMAIN ga.population,
            [k \in DOMAIN ga.population |-> fitness_function(ga.population[k], item_owner)])

Selecting == algo = "genetic" /\ pc = "ga_loop" /\ ga.generation < ga.num_generations

C21_Roulette ==
    Selecting =>
        /\ \A parents \in selection(ga.population, PassedFitness, NumParents(ga)) :
              /\ Len(parents) = NumParents(ga)
              /\ Range(parents) \subseteq Range(ga.population)
        /\ TotalFitness > 0 =>
              \A k \in DOMAIN ga.population :
                 selection_probs(PassedFitness)[k] =
                    <<fitness_function(ga.population[k], item_owner), TotalFitness>>
        /\ (TotalFitness = 0 /\ NumParents(ga) >= 1) =>
              \A k \in DOMAIN ga.population :
                 \E parents \in selection(ga.population, PassedFitness, NumParents(ga)) :
                    parents[1] = ga.population[k]

(***************************************************************************)
(* C23: the mutation rate is multiplied by 1.5 (capped at 0.5) and the     *)
(* stagnation counter reset to 0 exactly in the generations in which the   *)
(* best fitness has failed to improve for 10 consecutive generations; in   *)
(* every generation the rate is at least its initial value, never          *)
(* decreases and never exceeds 0.5.                                        *)
(***************************************************************************)
\* the generation being run does not improve on the best fitness
NotImproving == BestOf(ga.population) <= ga.best_fitness

\* with this generation the best fitness has failed to improve for
\* max_no_improvement generations in a row (the counter holds the
\* non-improving generations before it)
Stagnated == NotImproving /\ ga.no_improvement_counter + 1 >= max_no_improvement

Raised(rate) ==
    IF (rate * 3) \div 2 < MutationCeiling THEN (rate * 3) \div 2 ELSE MutationCeiling

C23_Stagnation ==
    [][GenerationStep =>
          /\ Stagnated =>
                /\ ga'.mutation_rate = Raised(ga.mutation_rate)
                /\ ga'.no_improvement_counter = 0
          /\ ~Stagnated =>
                /\ ga'.mutation_rate = ga.mutation_rate
                /\ ga'.no_improvement_counter =
                      IF NotImproving THEN ga.no_improvement_counter + 1 ELSE 0
          /\ ga'.mutation_rate >= ga.mutation_rate
          /\ ga'.mutation_rate >= InitialMutationRate
          /\ ga'.mutation_rate <= MutationCeiling]_vars

\* the part of C23 the code keeps: the rate starts at its initial value,
\* never decreases and stays within the ceiling, also across a raise
RateWithinBounds ==
    [][GenerationStep =>
          /\ ga'.mutation_rate >= ga.mutation_rate
          /\ ga'.mutation_rate >= InitialMutationRate
          /\ ga'.mutation_rate <= MutationCeiling]_vars

RaiseSeen == algo = "genetic" /\ ga.mutation_rate > InitialMutationRate

(***************************************************************************)
(* C29: with 1 <= elite_size <= population_size, every generation starts   *)
(* from a population of exactly population_size chromosomes that holds the *)
(* top elite_size chromosomes of the previous generation unchanged, so the *)
(* largest fitness in the population never decreases; the injection on     *)
(* low diversity (extend by floor(0.2 * population_size) fresh             *)
(* chromosomes, truncate to population_size) removes no elite and no       *)
(* child: behind the elite stand children of the previous population.      *)
(***************************************************************************)
Fit(chromosome) == fitness_function(chromosome, item_owner)

\* fewer than k chromosomes of the population are fitter than c
AmongTop(c, k, population) ==
    /\ c \in Range(population)
    /\ Cardinality({j \in DOMAIN population : Fit(population[j]) > Fit(c)}) < k

\* c can come out of crossover and mutation of two members of the population
ChildOf(c, population) ==
    \E a, b \in DOMAIN population :
        c \in mutation(crossover(population[a], population[b]), cycles, ga.mutation_rate)

C29_Elitism ==
    [][(GenerationStep /\ ga.elite_size >= 1 /\ ga.elite_size <= ga.population_size) =>
          /\ Len(ga.population) = ga.population_size
          /\ Len(ga'.population) = ga.population_size
          /\ \A k \in 1..ga.elite_size : AmongTop(ga'.population[k], k, ga.population)
          /\ \A k \in (ga.elite_size + 1)..ga.population_size :
                ChildOf(ga'.population[k], ga.population)
          /\ BestOf(ga'.population) >= BestOf(ga.population)]_vars

\* a generation has just ended in the injection: the population it left is
\* of low diversity, fresh chromosomes were appended and cut off again
C29_Witness ==
    /\ algo = "genetic" /\ pc = "ga_loop" /\ ga.generation >= 2
    /\ ga.elite_size >= 1 /\ ga.elite_size < ga.population_size
    /\ (ga.population_size * 2) \div 10 >= 1
    /\ Len(ga.population) = ga.population_size
    /\ calculate_diversity_low(ga.population)

====
